---- MODULE Spec2Model ----
(***************************************************************************)
(* Gateway + Service Registry subsystem of the shopping-list microservices *)
(* system: the API gateway's circuit breaker table, its routes and path    *)
(* rewriting, its proxy handler (split at its one suspension point, the    *)
(* await of the downstream call), its aggregate endpoints, its health      *)
(* check timers, and the shared service registry.                          *)
(***************************************************************************)
EXTENDS Integers, FiniteSets, Sequences, TLC

(* ------------------------------ bounds --------------------------------- *)
\* the clock stops after this many ticks
MaxTicks == 2
\* no failure is recorded once the breakers together count this many failures
MaxFailures == 4
\* downstream calls of proxied requests awaited at the same time
MaxInFlight == 1
\* the same, in the specification of requests to one service at once
MaxBurst == 2
\* no breaker record is created once the Map holds this many
MaxBreakers == 1
\* segments of a request path after its public prefix
MaxRest == 2
\* user-service: stored users plus register requests being handled
MaxUsers == 3
\* list-service: add-item requests awaiting the catalog at the same time
MaxAdditions == 2

(* ------------------------- program constants --------------------------- *)
\* recordFailure: "if (breaker.failures >= 3)"
Threshold == 3
\* isCircuitOpen: "(now - breaker.lastFailure) > 30000"
CoolDown == 30000
\* one step of the clock, a cooldown: one step after a failure the clock is
\* at the cooldown boundary exactly, two steps after it the cooldown is past
TickMs == CoolDown

\* the service names the routes of setupRoutes hand to proxyRequest
Services == {"user-service", "item-service", "list-service"}

\* What the awaited axios call of proxyRequest can settle with: a response
\* with a status, or a rejection without a response that carries a code.
\* ECONNABORTED is the code axios gives a request that exceeds config.timeout.
Statuses == {200, 404, 500}
ErrorCodes == {"ECONNREFUSED", "ETIMEDOUT", "ECONNABORTED"}

VARIABLES
    registry,         \* names that have a record in the service registry
    records,          \* the ServiceRecords of the service registry
    circuitBreakers,  \* this.circuitBreakers: a Map, service name -> breaker
    now,              \* Date.now(), in ms
    inflight,         \* per service, proxied requests awaiting axios(config)
    aggKind,          \* aggregate being served: "none", "dashboard", "search"
    aggAuth,          \* its request carries an Authorization header
    aggCalls,         \* label -> "pending" | "fulfilled" | "rejected"
    gatewayUp,        \* the gateway process is running
    backends,         \* the backend processes that are running
    users,            \* user-service: the documents of its users collection
    registrations,    \* user-service: register handlers at an await
    lists,            \* list-service: list id -> the items of the stored list
    additions,        \* list-service: add-item handlers at their await
    last              \* what the latest handler step did and answered

\* the state of the backend services
serviceVars == <<backends, users, registrations, lists, additions>>

\* the state of the gateway, and the clock
gatewayVars ==
    <<circuitBreakers, now, inflight, aggKind, aggAuth, aggCalls, gatewayUp>>

vars == <<registry, records, circuitBreakers, now, inflight, aggKind, aggAuth,
         aggCalls,
         gatewayUp, backends, users, registrations, lists, additions, last>>

(* --------------------------- service registry -------------------------- *)
\* discover(name) returns the record of name, and throws when it has none
discoverThrows(reg, serviceName) == serviceName \notin reg

\* Object.keys(listServices())
listServices(reg) == reg

\* the url each service registers itself with
registeredUrl(serviceName) ==
    IF serviceName = "user-service" THEN "http://localhost:3001"
    ELSE IF serviceName = "list-service" THEN "http://localhost:3002"
    ELSE "http://localhost:3003"

\* A ServiceRecord is [name, url, healthy]. The names that have a record:
namesOf(recs) == {r.name : r \in recs}

\* variant: register adds a record and leaves the earlier one of the name
registerAppends(recs, name, url) ==
    recs \cup {[name |-> name, url |-> url, healthy |-> TRUE]}

\* register(name, record): upserts the record of name, which starts healthy
register(recs, name, url) ==
    {r \in recs : r.name # name}
        \cup {[name |-> name, url |-> url, healthy |-> TRUE]}

\* updateHealth(name, healthy): sets the flag of the record of name, and
\* does nothing when name has no record
updateHealth(recs, name, healthy) ==
    {IF r.name = name
     THEN [name |-> r.name, url |-> r.url, healthy |-> healthy]
     ELSE r : r \in recs}

\* unregister(name): deletes the record of name
unregister(recs, name) == {r \in recs : r.name # name}

(* ---------------------------- circuit breaker -------------------------- *)
\* variant: the cooldown is taken twice as long
cooldownElapsedLate(breaker, t) ==
    breaker.isOpen /\ (t - breaker.lastFailure) > 2 * CoolDown

\* the branch of isCircuitOpen that moves an Open breaker to HalfOpen
cooldownElapsed(breaker, t) ==
    breaker.isOpen /\ (t - breaker.lastFailure) > CoolDown

\* variant: the wrong flag is returned
isCircuitOpenWrongFlag(cb, serviceName, t) ==
    IF serviceName \notin DOMAIN cb THEN FALSE
    ELSE IF cooldownElapsed(cb[serviceName], t) THEN FALSE
    ELSE cb[serviceName].isHalfOpen

\* variant: a HalfOpen breaker lets one trial through at a time
isCircuitOpenOneTrial(cb, serviceName, t) ==
    IF serviceName \notin DOMAIN cb THEN FALSE
    ELSE IF cooldownElapsed(cb[serviceName], t) THEN FALSE
    ELSE \/ cb[serviceName].isOpen
         \/ cb[serviceName].isHalfOpen /\ inflight[serviceName] > 0

\* the value isCircuitOpen returns
isCircuitOpen(cb, serviceName, t) ==
    IF serviceName \notin DOMAIN cb THEN FALSE
    ELSE IF cooldownElapsed(cb[serviceName], t) THEN FALSE
    ELSE cb[serviceName].isOpen

\* the table after isCircuitOpen has run
isCircuitOpenEffect(cb, serviceName, t) ==
    IF serviceName \in DOMAIN cb /\ cooldownElapsed(cb[serviceName], t)
    THEN [cb EXCEPT ![serviceName].isOpen = FALSE,
                    ![serviceName].isHalfOpen = TRUE]
    ELSE cb

\* the record recordFailure starts from when the Map has none (its
\* lastFailure, null in the source, is overwritten before it is stored)
newBreaker == [failures |-> 0, isOpen |-> FALSE, isHalfOpen |-> FALSE,
               lastFailure |-> 0]

\* variant: the breaker opens after the threshold is exceeded, not reached
recordFailureLate(cb, serviceName, t) ==
    LET breaker == IF serviceName \in DOMAIN cb THEN cb[serviceName]
                   ELSE newBreaker
        counted == [breaker EXCEPT !.failures = @ + 1, !.lastFailure = t]
        stored  == IF counted.failures > Threshold
                   THEN [counted EXCEPT !.isOpen = TRUE, !.isHalfOpen = FALSE]
                   ELSE counted
    IN  [n \in DOMAIN cb \cup {serviceName} |->
            IF n = serviceName THEN stored ELSE cb[n]]

\* variant: the breaker opens one failure before the threshold
recordFailureEarly(cb, serviceName, t) ==
    LET breaker == IF serviceName \in DOMAIN cb THEN cb[serviceName]
                   ELSE newBreaker
        counted == [breaker EXCEPT !.failures = @ + 1, !.lastFailure = t]
        stored  == IF counted.failures >= Threshold - 1
                   THEN [counted EXCEPT !.isOpen = TRUE, !.isHalfOpen = FALSE]
                   ELSE counted
    IN  [n \in DOMAIN cb \cup {serviceName} |->
            IF n = serviceName THEN stored ELSE cb[n]]

\* variant: the breaker opens only when the count equals the threshold
recordFailureExact(cb, serviceName, t) ==
    LET breaker == IF serviceName \in DOMAIN cb THEN cb[serviceName]
                   ELSE newBreaker
        counted == [breaker EXCEPT !.failures = @ + 1, !.lastFailure = t]
        stored  == IF counted.failures = Threshold
                   THEN [counted EXCEPT !.isOpen = TRUE, !.isHalfOpen = FALSE]
                   ELSE counted
    IN  [n \in DOMAIN cb \cup {serviceName} |->
            IF n = serviceName THEN stored ELSE cb[n]]

\* variant: a failure that opens the breaker leaves the half-open flag
recordFailureKeepsHalfOpen(cb, serviceName, t) ==
    LET breaker == IF serviceName \in DOMAIN cb THEN cb[serviceName]
                   ELSE newBreaker
        counted == [breaker EXCEPT !.failures = @ + 1, !.lastFailure = t]
        stored  == IF counted.failures >= Threshold
                   THEN [counted EXCEPT !.isOpen = TRUE]
                   ELSE counted
    IN  [n \in DOMAIN cb \cup {serviceName} |->
            IF n = serviceName THEN stored ELSE cb[n]]

\* the table after recordFailure has run
recordFailure(cb, serviceName, t) ==
    LET breaker == IF serviceName \in DOMAIN cb THEN cb[serviceName]
                   ELSE newBreaker
        counted == [breaker EXCEPT !.failures = @ + 1, !.lastFailure = t]
        stored  == IF counted.failures >= Threshold
                   THEN [counted EXCEPT !.isOpen = TRUE, !.isHalfOpen = FALSE]
                   ELSE counted
    IN  [n \in DOMAIN cb \cup {serviceName} |->
            IF n = serviceName THEN stored ELSE cb[n]]

\* variant: the half-open flag is left as it was
resetCircuitBreakerKeepsHalfOpen(cb, serviceName) ==
    IF serviceName \in DOMAIN cb
    THEN [cb EXCEPT ![serviceName].failures = 0,
                    ![serviceName].isOpen = FALSE]
    ELSE cb

\* variant: a success resets the record of every service
resetCircuitBreakerAll(cb, serviceName) ==
    [n \in DOMAIN cb |->
        [cb[n] EXCEPT !.failures = 0, !.isOpen = FALSE, !.isHalfOpen = FALSE]]

\* the table after resetCircuitBreaker has run
resetCircuitBreaker(cb, serviceName) ==
    IF serviceName \in DOMAIN cb
    THEN [cb EXCEPT ![serviceName].failures = 0,
                    ![serviceName].isOpen = FALSE,
                    ![serviceName].isHalfOpen = FALSE]
    ELSE cb

(* ------------------------------ responses ------------------------------ *)
NoNames == {}
NoLabels == << >>
NoUrl == << >>

\* The observation of the step just taken: which operation ran for which
\* service, whether it called Registry.discover, the services it sent a
\* request to, what the downstream answered (status 0: no answer), the
\* failures the breaker of the service counted when a failure was recorded,
\* req.originalUrl of a proxied request that was sent on and the url it was
\* sent to (the registered url, then the segments of the path), whether the
\* request carried an Authorization header (aggregates), and the response it
\* wrote (status 0: none written):
\* status, the body's success ("none": the body has no such field of the
\* gateway's), message, service, error and availableServices, whether the
\* body is the downstream's, and, for an aggregate, what Promise.allSettled
\* resolved with per label and the per-label entries of the answer.
\* Silent is a step that calls nothing and answers nothing.
Silent(op, target) ==
    [op |-> op, target |-> target, discovered |-> FALSE, net |-> NoNames,
     downstream |-> 0, counted |-> 0,
     originalUrl |-> NoUrl, url |-> NoUrl, auth |-> FALSE,
     status |-> 0, success |-> "none", message |-> "none",
     itemId |-> "none",
     service |-> "none", error |-> "none",
     relayed |-> FALSE, availableServices |-> NoNames,
     settled |-> NoLabels, labels |-> NoLabels]

Init ==
    /\ registry = {}
    /\ records = {}
    /\ circuitBreakers = << >>
    /\ now = 0
    /\ inflight = [s \in Services |-> 0]
    /\ aggKind = "none"
    /\ aggAuth = FALSE
    /\ aggCalls = << >>
    /\ gatewayUp = TRUE
    /\ backends = {}
    /\ users = << >>
    /\ registrations = << >>
    /\ lists = << >>
    /\ additions = << >>
    /\ last = Silent("start", "none")

(* ------------------------------ environment ---------------------------- *)
\* Time passes. Date.now() is only ever compared with the lastFailure of an
\* Open breaker, and only to tell whether more than the cooldown has passed:
\* the clock is advanced while there is an Open breaker still in its cooldown.
Tick ==
    /\ now < MaxTicks * TickMs
    /\ \E n \in DOMAIN circuitBreakers :
          /\ circuitBreakers[n].isOpen
          /\ (now - circuitBreakers[n].lastFailure) <= CoolDown
    /\ now' = now + TickMs
    /\ last' = Silent("environment", "none")
    /\ UNCHANGED <<registry, records, circuitBreakers, inflight, aggKind,
                   aggAuth, aggCalls, gatewayUp, serviceVars>>

\* a backend starts and registers itself
Register(serviceName) ==
    /\ records' = register(records, serviceName, registeredUrl(serviceName))
    /\ registry' = namesOf(records')
    /\ last' = Silent("environment", "none")
    /\ UNCHANGED <<circuitBreakers, now, inflight, aggKind, aggAuth,
                   aggCalls, gatewayUp, serviceVars>>

\* a backend shuts down gracefully and unregisters itself
Unregister(serviceName) ==
    /\ records' = unregister(records, serviceName)
    /\ registry' = namesOf(records')
    /\ last' = Silent("environment", "none")
    /\ UNCHANGED <<circuitBreakers, now, inflight, aggKind, aggAuth,
                   aggCalls, gatewayUp, serviceVars>>

(* ------------------------- backend processes --------------------------- *)
\* process.env.PORT of a backend: not set, or set to another port
EnvPorts == {"unset", "4000"}

\* serviceUrl: `http://localhost:${process.env.PORT || <default port>}`
serviceUrl(serviceName, envPort) ==
    IF envPort = "unset" THEN registeredUrl(serviceName)
    ELSE "http://localhost:4000"

\* the backends whose timer reports their health every 30 s
reportsHealth(serviceName) ==
    serviceName \in {"user-service", "item-service"}

\* The SIGTERM and SIGINT handlers of user-service and of item-service call
\* serviceRegistry.unregister before process.exit(0); those of list-service
\* log a line and call process.exit(0).
unregistersOnSignal(serviceName) ==
    serviceName \in {"user-service", "item-service"}

\* start() of user-service and item-service, startServer() of list-service:
\* the process registers its name with its url
StartService(serviceName, envPort) ==
    /\ serviceName \notin backends
    /\ backends' = backends \cup {serviceName}
    /\ records' = register(records, serviceName,
                           serviceUrl(serviceName, envPort))
    /\ registry' = namesOf(records')
    /\ last' = [Silent("startServer", serviceName) EXCEPT
                   !.url = <<serviceUrl(serviceName, envPort)>>]
    /\ UNCHANGED <<gatewayVars, users, registrations, lists, additions>>

\* the callback of the setInterval of startHealthReporting
HealthReport(serviceName) ==
    /\ serviceName \in backends
    /\ reportsHealth(serviceName)
    /\ records' = updateHealth(records, serviceName, TRUE)
    /\ registry' = namesOf(records')
    /\ last' = Silent("updateHealth", serviceName)
    /\ UNCHANGED <<gatewayVars, serviceVars>>

\* performHealthChecks of the registry: a probe of a registered service that
\* fails marks its record unhealthy and keeps the record
ProbeFails(serviceName) ==
    /\ serviceName \in namesOf(records)
    /\ records' = updateHealth(records, serviceName, FALSE)
    /\ registry' = namesOf(records')
    /\ last' = Silent("probe", serviceName)
    /\ UNCHANGED <<gatewayVars, serviceVars>>

\* a running backend receives SIGTERM or SIGINT: its handler runs, and the
\* process exits
ShutdownService(serviceName, signal) ==
    /\ serviceName \in backends
    /\ backends' = backends \ {serviceName}
    /\ records' = IF unregistersOnSignal(serviceName)
                  THEN unregister(records, serviceName)
                  ELSE records
    /\ registry' = namesOf(records')
    /\ last' = Silent(signal, serviceName)
    /\ UNCHANGED <<gatewayVars, users, registrations, lists, additions>>

(* ------------------------ user-service: register ----------------------- *)
\* A string is the sequence of its characters.
\* String.toLowerCase, on the letters that occur in the inputs
lowerChar(c) == IF c = "A" THEN "a" ELSE IF c = "B" THEN "b" ELSE c

toLowerCase(str) == [i \in 1..Len(str) |-> lowerChar(str[i])]

\* String.trim
RECURSIVE trimStart(_)
trimStart(str) ==
    IF str # << >> /\ Head(str) = " " THEN trimStart(Tail(str)) ELSE str

RECURSIVE trimEnd(_)
trimEnd(str) ==
    IF str # << >> /\ str[Len(str)] = " "
    THEN trimEnd(SubSeq(str, 1, Len(str) - 1))
    ELSE str

trim(str) == trimEnd(trimStart(str))

\* UserModel.validateRequiredFields, for the two fields of the uniqueness
\* checks: both are non-blank and the trimmed username has 3 characters or
\* more (the other fields of the requests are valid)
validateRequiredFields(email, username) ==
    /\ trim(email) # << >>
    /\ trim(username) # << >>
    /\ Len(trim(username)) >= 3

\* UserModel.validateEmail: /^[^\s@]+@[^\s@]+\.[^\s@]+$/
validateEmail(email) ==
    /\ \A i \in 1..Len(email) : email[i] # " "
    /\ Cardinality({i \in 1..Len(email) : email[i] = "@"}) = 1
    /\ \E i, j \in 1..Len(email) :
          /\ email[i] = "@" /\ email[j] = "."
          /\ 1 < i /\ i + 1 < j /\ j < Len(email)

\* usersDb.findOne({field: value}): a stored document whose field is value
findOne(db, field, value) == \E i \in 1..Len(db) : db[i][field] = value

\* usersDb.create(document): the document is added to the collection
create(db, document) == Append(db, document)

\* UserModel.createUser: the email is stored lower-cased and trimmed, the
\* username trimmed
createUser(email, username) ==
    [email |-> trim(toLowerCase(email)), username |-> trim(username)]

\* the emails and usernames of the requests
Emails ==
    {<<"a", "@", "b", ".", "c">>, <<"A", "@", "b", ".", "c">>,
     <<"b", "@", "b", ".", "c">>, <<"a", "b">>}

Usernames ==
    {<<"a", "n", "a">>, <<"A", "n", "a">>, <<"b", "o", "b">>, <<"a", "b">>}

\* the answer of the register handler
registerAnswer(status, message) ==
    [Silent("register", "user-service") EXCEPT
        !.status = status,
        !.success = IF status = 201 THEN "true" ELSE "false",
        !.message = message]

\* the smallest handler number not in use
freeHandler(handlers) ==
    CHOOSE h \in 1..(Cardinality(DOMAIN handlers) + 1) :
        /\ h \notin DOMAIN handlers
        /\ \A k \in 1..(h - 1) : k \in DOMAIN handlers

\* the handlers other than h
without(handlers, h) ==
    [k \in DOMAIN handlers \ {h} |-> handlers[k]]

\* POST /auth/register arrives: the fields are validated, a request that
\* fails is answered 400, and for one that passes the first findOne is
\* called and awaited
RegisterReceive(h, email, username) ==
    /\ h \notin DOMAIN registrations
    /\ Len(users) + Cardinality(DOMAIN registrations) < MaxUsers
    /\ IF validateRequiredFields(email, username) /\ validateEmail(email)
       THEN /\ registrations' =
                   [k \in DOMAIN registrations \cup {h} |->
                       IF k = h
                       THEN [email |-> email, username |-> username,
                             at |-> "findEmail", existingEmail |-> FALSE]
                       ELSE registrations[k]]
            /\ last' = Silent("register", "user-service")
       ELSE /\ registrations' = registrations
            /\ last' = registerAnswer(400, "validation")
    /\ UNCHANGED <<registry, records, gatewayVars, backends, users, lists,
                   additions>>

\* findOne({ email: email.toLowerCase() }) resolves; the second findOne is
\* called and awaited
RegisterFindEmail(h) ==
    /\ h \in DOMAIN registrations
    /\ registrations[h].at = "findEmail"
    /\ registrations' =
          [registrations EXCEPT
              ![h].existingEmail =
                  findOne(users, "email", toLowerCase(registrations[h].email)),
              ![h].at = "findUsername"]
    /\ last' = Silent("register", "user-service")
    /\ UNCHANGED <<registry, records, gatewayVars, backends, users, lists,
                   additions>>

\* findOne({ username: username.toLowerCase() }) resolves; a request whose
\* email or username was found is answered 409, and for another one
\* UserModel.createUser is called and awaits bcrypt.hash
RegisterFindUsername(h) ==
    /\ h \in DOMAIN registrations
    /\ registrations[h].at = "findUsername"
    /\ LET existingUsername ==
               findOne(users, "username",
                       toLowerCase(registrations[h].username))
       IN  IF registrations[h].existingEmail
           THEN /\ registrations' = without(registrations, h)
                /\ last' = registerAnswer(409, "Email ja esta em uso")
           ELSE IF existingUsername
           THEN /\ registrations' = without(registrations, h)
                /\ last' = registerAnswer(409, "Username ja esta em uso")
           ELSE /\ registrations' =
                       [registrations EXCEPT ![h].at = "createUser"]
                /\ last' = Silent("register", "user-service")
    /\ UNCHANGED <<registry, records, gatewayVars, backends, users, lists,
                   additions>>

\* bcrypt.hash resolves: createUser returns the new user, usersDb.create
\* stores it, and the request is answered 201
RegisterCreate(h) ==
    /\ h \in DOMAIN registrations
    /\ registrations[h].at = "createUser"
    /\ users' = create(users, createUser(registrations[h].email,
                                         registrations[h].username))
    /\ registrations' = without(registrations, h)
    /\ last' = registerAnswer(201, "Usuario criado com sucesso")
    /\ UNCHANGED <<registry, records, gatewayVars, backends, lists,
                   additions>>

(* ---------------------- list-service: items of a list ------------------ *)
\* the lists and the catalog items of the requests
ListIds == {"l1"}

ItemIds == {"i1", "i2"}

\* A catalog item is [id], an item of a list [itemId, quantity,
\* estimatedPrice]; the items of a list are a sequence. A property an object
\* does not have reads as undefined.
idOf(object) == IF "id" \in DOMAIN object THEN object.id ELSE "undefined"

\* the body of the answer of GET /items/:id of item-service (getItem):
\* { success: true, data: item, schema }, which has no property id
getItemBody(itemId) == [success |-> TRUE, data |-> [id |-> itemId]]

\* ListModel.validateItemData: the message of the error it throws, or "none"
validateItemData(itemData) ==
    IF "quantity" \notin DOMAIN itemData \/ itemData.quantity <= 0
    THEN "Quantidade e obrigatoria"
    ELSE IF /\ "estimatedPrice" \in DOMAIN itemData
            /\ itemData.estimatedPrice < 0
    THEN "Preco estimado deve ser maior ou igual a zero"
    ELSE "none"

\* Array.findIndex(item => item.itemId === itemId), counted from 1; 0 when
\* no item has that itemId
findIndex(items, itemId) ==
    IF \E i \in 1..Len(items) : items[i].itemId = itemId
    THEN CHOOSE i \in 1..Len(items) :
             /\ items[i].itemId = itemId
             /\ \A k \in 1..(i - 1) : items[k].itemId # itemId
    ELSE 0

\* what a function of ListModel that may throw leaves: the message of the
\* error ("none": it returned) and the items of the list
Outcome(threw, items) == [threw |-> threw, items |-> items]

\* variant: an item is added whether or not the list has it
addItemToListUnchecked(items, itemData, catalogItem) ==
    IF validateItemData(itemData) # "none"
    THEN Outcome(validateItemData(itemData), items)
    ELSE Outcome("none",
                 Append(items, [itemId |-> idOf(catalogItem),
                                quantity |-> itemData.quantity,
                                estimatedPrice |-> itemData.estimatedPrice]))

\* ListModel.addItemToList (the requests state their estimatedPrice, so
\* catalogItem.averagePrice is not read)
addItemToList(items, itemData, catalogItem) ==
    IF validateItemData(itemData) # "none"
    THEN Outcome(validateItemData(itemData), items)
    ELSE IF findIndex(items, idOf(catalogItem)) # 0
    THEN Outcome("Item ja existe na lista. Use PUT para atualizar.", items)
    ELSE Outcome("none",
                 Append(items, [itemId |-> idOf(catalogItem),
                                quantity |-> itemData.quantity,
                                estimatedPrice |-> itemData.estimatedPrice]))

\* ListModel.updateItemInList. updatedItems is a shallow copy of list.items:
\* the assignments write to the item objects of the list that was passed, so
\* a quantity that was assigned stays assigned when the price then throws.
updateItemInList(items, itemId, updateData) ==
    LET itemIndex == findIndex(items, itemId)
        withQuantity ==
            IF "quantity" \in DOMAIN updateData
            THEN [items EXCEPT ![itemIndex].quantity = updateData.quantity]
            ELSE items
        withPrice ==
            IF "estimatedPrice" \in DOMAIN updateData
            THEN [withQuantity EXCEPT
                     ![itemIndex].estimatedPrice = updateData.estimatedPrice]
            ELSE withQuantity
    IN  IF itemIndex = 0
        THEN Outcome("Item nao encontrado na lista", items)
        ELSE IF "quantity" \in DOMAIN updateData /\ updateData.quantity <= 0
        THEN Outcome("Quantidade deve ser um numero maior que zero", items)
        ELSE IF /\ "estimatedPrice" \in DOMAIN updateData
                /\ updateData.estimatedPrice < 0
        THEN Outcome("Preco estimado deve ser maior ou igual a zero",
                     withQuantity)
        ELSE Outcome("none", withPrice)

\* Array.filter(item => item.itemId !== itemId)
RECURSIVE filterOut(_, _)
filterOut(items, itemId) ==
    IF items = << >> THEN << >>
    ELSE IF Head(items).itemId = itemId THEN filterOut(Tail(items), itemId)
    ELSE <<Head(items)>> \o filterOut(Tail(items), itemId)

\* ListModel.removeItemFromList
removeItemFromList(items, itemId) ==
    IF findIndex(items, itemId) = 0
    THEN Outcome("Item nao encontrado na lista", items)
    ELSE Outcome("none", filterOut(items, itemId))

\* the itemData and updateData of the requests
ItemData ==
    {[quantity |-> 1, estimatedPrice |-> 5],
     [quantity |-> 0, estimatedPrice |-> 5]}

UpdateData ==
    {[quantity |-> 2], [quantity |-> 0], [estimatedPrice |-> 7],
     [quantity |-> 2, estimatedPrice |-> 0 - 1]}

\* the catalog items handed to addItemToList: an item of the catalog, or
\* the body of getItem as getItemFromCatalog returns it
CatalogItems ==
    {[id |-> i] : i \in ItemIds} \cup {getItemBody(i) : i \in ItemIds}

\* what a call of a function of ListModel did
listAnswer(op, listId, itemId, outcome) ==
    [Silent(op, listId) EXCEPT
        !.itemId = itemId,
        !.success = IF outcome.threw = "none" THEN "true" ELSE "false",
        !.error = outcome.threw]

\* POST /lists: ListModel.createList makes a list with items: []
CreateList(listId) ==
    /\ listId \notin DOMAIN lists
    /\ lists' = [l \in DOMAIN lists \cup {listId} |->
                    IF l = listId THEN << >> ELSE lists[l]]
    /\ last' = Silent("createList", listId)
    /\ UNCHANGED <<registry, records, gatewayVars, backends, users,
                   registrations, additions>>

\* a function of ListModel has run on the stored list listId and left it
\* as outcome says
Applied(op, listId, itemId, outcome) ==
    /\ lists' = [lists EXCEPT ![listId] = outcome.items]
    /\ last' = listAnswer(op, listId, itemId, outcome)
    /\ UNCHANGED <<registry, records, gatewayVars, backends, users,
                   registrations, additions>>

AddItemToList(listId, itemData, catalogItem) ==
    /\ listId \in DOMAIN lists
    /\ Applied("addItemToList", listId, idOf(catalogItem),
               addItemToList(lists[listId], itemData, catalogItem))

UpdateItemInList(listId, itemId, updateData) ==
    /\ listId \in DOMAIN lists
    /\ Applied("updateItemInList", listId, itemId,
               updateItemInList(lists[listId], itemId, updateData))

RemoveItemFromList(listId, itemId) ==
    /\ listId \in DOMAIN lists
    /\ Applied("removeItemFromList", listId, itemId,
               removeItemFromList(lists[listId], itemId))

\* the answer of the handler of POST /lists/:id/items
addItemAnswer(listId, itemId, status, message) ==
    [Silent("addItem", listId) EXCEPT
        !.itemId = itemId, !.status = status,
        !.success = IF status = 201 THEN "true" ELSE "false",
        !.message = message]

\* the status the catch block of the handler answers an error message with:
\* 400 for a message that includes 'ja existe', 'obrigatorio', 'invalido' or
\* 'nao encontrado' (the message of validateItemData says 'obrigatoria' and
\* includes none of them), 503 for one that includes 'Item Service'
addItemStatus(message) ==
    IF message \in {"Item ja existe na lista. Use PUT para atualizar.",
                    "Item nao encontrado no catalogo"}
    THEN 400
    ELSE IF message = "Erro ao comunicar com Item Service" THEN 503
    ELSE 500

\* POST /lists/:id/items arrives from the owner of the list with an itemId:
\* a list that does not exist is answered 404; otherwise the stored list is
\* read, getItemFromCatalog is called and its promise awaited (it is
\* rejected without a request when discover throws)
AddItemReceive(h, listId, itemId, itemData) ==
    /\ h \notin DOMAIN additions
    /\ Cardinality(DOMAIN additions) < MaxAdditions
    /\ IF listId \notin DOMAIN lists
       THEN /\ additions' = additions
            /\ last' = addItemAnswer(listId, itemId, 404,
                                     "Lista nao encontrada")
       ELSE /\ additions' =
                   [k \in DOMAIN additions \cup {h} |->
                       IF k = h
                       THEN [listId |-> listId,
                             existingList |-> lists[listId],
                             itemId |-> itemId, itemData |-> itemData,
                             sent |-> ~discoverThrows(registry,
                                                      "item-service")]
                       ELSE additions[k]]
            /\ last' = Silent("addItem", listId)
    /\ UNCHANGED <<registry, records, gatewayVars, backends, users,
                   registrations, lists>>

\* the promise of getItemFromCatalog settles: with the body of the answer of
\* item-service, or rejected for a 404 or for any other error. addItemToList
\* runs on the list that was read before the await, db.update stores its
\* result, and the request is answered.
AddItemSettles(h, answer) ==
    /\ h \in DOMAIN additions
    /\ answer \in {"200", "404", "error"}
    /\ additions[h].sent \/ answer = "error"
    /\ LET a == additions[h]
           outcome ==
               IF answer = "404"
               THEN Outcome("Item nao encontrado no catalogo", << >>)
               ELSE IF answer = "error"
               THEN Outcome("Erro ao comunicar com Item Service", << >>)
               ELSE addItemToList(a.existingList, a.itemData,
                                  getItemBody(a.itemId))
       IN  IF outcome.threw = "none"
           THEN /\ lists' = [lists EXCEPT ![a.listId] = outcome.items]
                /\ last' = addItemAnswer(a.listId, a.itemId, 201,
                                         "Item adicionado a lista com sucesso")
           ELSE /\ lists' = lists
                /\ last' = addItemAnswer(a.listId, a.itemId,
                                         addItemStatus(outcome.threw),
                                         outcome.threw)
    /\ additions' = without(additions, h)
    /\ UNCHANGED <<registry, records, gatewayVars, backends, users,
                   registrations>>

(* ----------------------- routing and path rewriting -------------------- *)
\* A path is the sequence of its segments: /api/items/42 is
\* <<"api", "items", "42">>, and both "" and "/" are << >>.
\* String.startsWith
startsWith(path, prefix) ==
    /\ Len(path) >= Len(prefix)
    /\ SubSeq(path, 1, Len(prefix)) = prefix

\* String.indexOf, counted from 1; 0 when pattern does not occur
indexOf(path, pattern) ==
    LET at == {i \in 1..(Len(path) - Len(pattern) + 1) :
                  SubSeq(path, i, i + Len(pattern) - 1) = pattern}
    IN  IF at = {} THEN 0 ELSE CHOOSE i \in at : \A j \in at : i <= j

\* String.replace with a string pattern: the first occurrence only
replace(path, pattern, replacement) ==
    LET i == indexOf(path, pattern)
    IN  IF i = 0 THEN path
        ELSE SubSeq(path, 1, i - 1) \o replacement
             \o SubSeq(path, i + Len(pattern), Len(path))

\* variant: the categories are routed to the list service
RoutesCategoriesToLists ==
    << [prefix |-> <<"api", "auth">>,            service |-> "user-service"],
       [prefix |-> <<"api", "users">>,           service |-> "user-service"],
       [prefix |-> <<"api", "items">>,           service |-> "item-service"],
       [prefix |-> <<"api", "lists">>,           service |-> "list-service"],
       [prefix |-> <<"api", "categories">>,      service |-> "list-service"],
       [prefix |-> <<"api", "search", "items">>, service |-> "item-service"] >>

\* the routes of setupRoutes that hand the request to proxyRequest, in the
\* order they are mounted
Routes ==
    << [prefix |-> <<"api", "auth">>,            service |-> "user-service"],
       [prefix |-> <<"api", "users">>,           service |-> "user-service"],
       [prefix |-> <<"api", "items">>,           service |-> "item-service"],
       [prefix |-> <<"api", "lists">>,           service |-> "list-service"],
       [prefix |-> <<"api", "categories">>,      service |-> "item-service"],
       [prefix |-> <<"api", "search", "items">>, service |-> "item-service"] >>

\* the service the first route that matches the path names, "none" without
\* a match
routeOf(path) ==
    LET hits == {i \in DOMAIN Routes : startsWith(path, Routes[i].prefix)}
    IN  IF hits = {} THEN "none"
        ELSE Routes[CHOOSE i \in hits : \A j \in hits : i <= j].service

\* "if (targetPath === '/' || targetPath === '')": the collection root
defaultPath(targetPath, root) ==
    IF targetPath = << >> THEN root ELSE targetPath

\* variant: the branch of the auth routes is missing
targetPathNoAuth(serviceName, originalPath) ==
    IF serviceName = "user-service"
    THEN defaultPath(replace(originalPath, <<"api", "users">>, <<"users">>),
                     <<"users">>)
    ELSE IF serviceName = "item-service"
    THEN defaultPath(
            IF startsWith(originalPath, <<"api", "categories">>)
            THEN replace(originalPath, <<"api", "categories">>,
                         <<"categories">>)
            ELSE IF startsWith(originalPath, <<"api", "search", "items">>)
            THEN replace(originalPath, <<"api", "search", "items">>,
                         <<"search">>)
            ELSE replace(originalPath, <<"api", "items">>, <<"items">>),
            <<"items">>)
    ELSE IF serviceName = "list-service"
    THEN defaultPath(replace(originalPath, <<"api", "lists">>, <<"lists">>),
                     <<"lists">>)
    ELSE << >>

\* targetPath of proxyRequest
targetPath(serviceName, originalPath) ==
    IF serviceName = "user-service"
    THEN defaultPath(
            IF startsWith(originalPath, <<"api", "auth">>)
            THEN replace(originalPath, <<"api", "auth">>, <<"auth">>)
            ELSE replace(originalPath, <<"api", "users">>, <<"users">>),
            <<"users">>)
    ELSE IF serviceName = "item-service"
    THEN defaultPath(
            IF startsWith(originalPath, <<"api", "categories">>)
            THEN replace(originalPath, <<"api", "categories">>,
                         <<"categories">>)
            ELSE IF startsWith(originalPath, <<"api", "search", "items">>)
            THEN replace(originalPath, <<"api", "search", "items">>,
                         <<"search">>)
            ELSE replace(originalPath, <<"api", "items">>, <<"items">>),
            <<"items">>)
    ELSE IF serviceName = "list-service"
    THEN defaultPath(replace(originalPath, <<"api", "lists">>, <<"lists">>),
                     <<"lists">>)
    ELSE << >>

\* targetUrl of proxyRequest: `${service.url}${targetPath}`
targetUrl(serviceName, originalPath) ==
    <<registeredUrl(serviceName)>> \o targetPath(serviceName, originalPath)

\* the collection root of each service on the gateway
publicRoot(serviceName) ==
    IF serviceName = "user-service" THEN <<"api", "users">>
    ELSE IF serviceName = "list-service" THEN <<"api", "lists">>
    ELSE <<"api", "items">>

\* the segments request paths are made of after their public prefix
Segments == {"api", "users", "items", "42"}

\* the paths under the public prefixes, with up to MaxRest further segments
Paths ==
    {Routes[i].prefix \o rest :
        i \in DOMAIN Routes,
        rest \in UNION {[1..n -> Segments] : n \in 0..MaxRest}}

(* ------------------------------ proxyRequest --------------------------- *)
RECURSIVE sumOver(_, _)
sumOver(f, S) ==
    IF S = {} THEN 0
    ELSE LET x == CHOOSE y \in S : TRUE IN f[x] + sumOver(f, S \ {x})

\* proxied requests awaiting their downstream call
totalInFlight == sumOver(inflight, Services)

\* failures counted by the breakers of the table together
totalFailures ==
    sumOver([n \in DOMAIN circuitBreakers |-> circuitBreakers[n].failures],
            DOMAIN circuitBreakers)

\* breaker.failures of a service, 0 while the Map has no record of it
failuresOf(cb, serviceName) ==
    IF serviceName \in DOMAIN cb THEN cb[serviceName].failures ELSE 0

\* variant: a short-circuited request restarts the cooldown
ProxyShortCircuitRestarts(serviceName) ==
    /\ isCircuitOpen(circuitBreakers, serviceName, now)
    /\ circuitBreakers' =
          [circuitBreakers EXCEPT ![serviceName].lastFailure = now]
    /\ last' = [Silent("proxy", serviceName) EXCEPT
                    !.status = 503, !.success = "false",
                    !.message = "temporariamente indisponivel",
                    !.service = serviceName]
    /\ UNCHANGED <<registry, records, now, inflight, aggKind, aggAuth,
                   aggCalls, gatewayUp, serviceVars>>

\* proxyRequest up to "return res.status(503)" of the breaker check
ProxyShortCircuit(serviceName) ==
    /\ isCircuitOpen(circuitBreakers, serviceName, now)
    /\ circuitBreakers' = isCircuitOpenEffect(circuitBreakers, serviceName, now)
    /\ last' = [Silent("proxy", serviceName) EXCEPT
                    !.status = 503, !.success = "false",
                    !.message = "temporariamente indisponivel",
                    !.service = serviceName]
    /\ UNCHANGED <<registry, records, now, inflight, aggKind, aggAuth,
                   aggCalls, gatewayUp, serviceVars>>

\* variant: the names of the registry are left out of the answer
ProxyNotFoundNoList(serviceName) ==
    /\ ~isCircuitOpen(circuitBreakers, serviceName, now)
    /\ discoverThrows(registry, serviceName)
    /\ circuitBreakers' = isCircuitOpenEffect(circuitBreakers, serviceName, now)
    /\ last' = [Silent("proxy", serviceName) EXCEPT
                    !.discovered = TRUE,
                    !.status = 503, !.success = "false",
                    !.message = "nao encontrado",
                    !.service = serviceName]
    /\ UNCHANGED <<registry, records, now, inflight, aggKind, aggAuth,
                   aggCalls, gatewayUp, serviceVars>>

\* proxyRequest up to "return res.status(503)" of the failed discovery
ProxyNotFound(serviceName) ==
    /\ ~isCircuitOpen(circuitBreakers, serviceName, now)
    /\ discoverThrows(registry, serviceName)
    /\ circuitBreakers' = isCircuitOpenEffect(circuitBreakers, serviceName, now)
    /\ last' = [Silent("proxy", serviceName) EXCEPT
                    !.discovered = TRUE,
                    !.status = 503, !.success = "false",
                    !.message = "nao encontrado",
                    !.service = serviceName,
                    !.availableServices = listServices(registry)]
    /\ UNCHANGED <<registry, records, now, inflight, aggKind, aggAuth,
                   aggCalls, gatewayUp, serviceVars>>

\* proxyRequest up to "await axios(config)": the request is sent, while
\* fewer than limit proxied requests are awaiting their downstream call
ProxyForwardUpTo(limit, serviceName, originalPath) ==
    /\ ~isCircuitOpen(circuitBreakers, serviceName, now)
    /\ ~discoverThrows(registry, serviceName)
    /\ totalInFlight < limit
    /\ circuitBreakers' = isCircuitOpenEffect(circuitBreakers, serviceName, now)
    /\ inflight' = [inflight EXCEPT ![serviceName] = @ + 1]
    /\ last' = [Silent("proxy", serviceName) EXCEPT
                    !.discovered = TRUE, !.net = {serviceName},
                    !.originalUrl = originalPath,
                    !.url = targetUrl(serviceName, originalPath)]
    /\ UNCHANGED <<registry, records, now, aggKind, aggAuth, aggCalls,
                   gatewayUp, serviceVars>>

ProxyForward(serviceName, originalPath) ==
    ProxyForwardUpTo(MaxInFlight, serviceName, originalPath)

\* axios resolves (validateStatus: status < 500): reset the breaker and relay
ProxySuccess(serviceName, status) ==
    /\ inflight[serviceName] > 0
    /\ status < 500
    /\ inflight' = [inflight EXCEPT ![serviceName] = @ - 1]
    /\ circuitBreakers' = resetCircuitBreaker(circuitBreakers, serviceName)
    /\ last' = [Silent("response", serviceName) EXCEPT
                    !.downstream = status,
                    !.status = status, !.relayed = TRUE]
    /\ UNCHANGED <<registry, records, now, aggKind, aggAuth, aggCalls,
                   gatewayUp, serviceVars>>

\* the model's caps on what recordFailure may add to the table
mayRecord(serviceName) ==
    /\ totalFailures < MaxFailures
    /\ \/ serviceName \in DOMAIN circuitBreakers
       \/ Cardinality(DOMAIN circuitBreakers) < MaxBreakers

\* variant: the answer is relayed and no failure is recorded
ProxyErrorResponseUnrecorded(serviceName, status) ==
    /\ inflight[serviceName] > 0
    /\ status >= 500
    /\ mayRecord(serviceName)
    /\ inflight' = [inflight EXCEPT ![serviceName] = @ - 1]
    /\ last' = [Silent("response", serviceName) EXCEPT
                    !.downstream = status,
                    !.counted = failuresOf(circuitBreakers, serviceName),
                    !.status = status, !.relayed = TRUE]
    /\ UNCHANGED <<registry, records, circuitBreakers, now, aggKind, aggAuth,
                   aggCalls, gatewayUp, serviceVars>>

\* axios rejects with a response (status >= 500): the catch block records
\* the failure and relays, "else if (error.response)"
ProxyErrorResponse(serviceName, status) ==
    /\ inflight[serviceName] > 0
    /\ status >= 500
    /\ mayRecord(serviceName)
    /\ inflight' = [inflight EXCEPT ![serviceName] = @ - 1]
    /\ circuitBreakers' = recordFailure(circuitBreakers, serviceName, now)
    /\ last' = [Silent("response", serviceName) EXCEPT
                    !.downstream = status,
                    !.counted = failuresOf(circuitBreakers, serviceName),
                    !.status = status, !.relayed = TRUE]
    /\ UNCHANGED <<registry, records, now, aggKind, aggAuth, aggCalls,
                   gatewayUp, serviceVars>>

\* the codes the catch block answers 503 for
isUnavailableCode(code) == code = "ECONNREFUSED" \/ code = "ETIMEDOUT"

\* variant: a service that cannot be reached is dropped from the registry
ProxyNetworkErrorUnregisters(serviceName, code) ==
    /\ inflight[serviceName] > 0
    /\ mayRecord(serviceName)
    /\ inflight' = [inflight EXCEPT ![serviceName] = @ - 1]
    /\ circuitBreakers' = recordFailure(circuitBreakers, serviceName, now)
    /\ records' = unregister(records, serviceName)
    /\ registry' = namesOf(records')
    /\ last' = IF isUnavailableCode(code)
               THEN [Silent("response", serviceName) EXCEPT
                        !.counted = failuresOf(circuitBreakers, serviceName),
                        !.status = 503, !.success = "false",
                        !.message = "indisponivel",
                        !.service = serviceName, !.error = code]
               ELSE [Silent("response", serviceName) EXCEPT
                        !.counted = failuresOf(circuitBreakers, serviceName),
                        !.status = 500, !.success = "false",
                        !.message = "Erro interno do gateway",
                        !.service = "api-gateway", !.error = code]
    /\ UNCHANGED <<now, aggKind, aggAuth, aggCalls, gatewayUp, serviceVars>>

\* axios rejects without a response (refused, timed out): the catch block
\* records the failure and synthesizes the answer
ProxyNetworkError(serviceName, code) ==
    /\ inflight[serviceName] > 0
    /\ mayRecord(serviceName)
    /\ inflight' = [inflight EXCEPT ![serviceName] = @ - 1]
    /\ circuitBreakers' = recordFailure(circuitBreakers, serviceName, now)
    /\ last' = IF isUnavailableCode(code)
               THEN [Silent("response", serviceName) EXCEPT
                        !.counted = failuresOf(circuitBreakers, serviceName),
                        !.status = 503, !.success = "false",
                        !.message = "indisponivel",
                        !.service = serviceName, !.error = code]
               ELSE [Silent("response", serviceName) EXCEPT
                        !.counted = failuresOf(circuitBreakers, serviceName),
                        !.status = 500, !.success = "false",
                        !.message = "Erro interno do gateway",
                        !.service = "api-gateway", !.error = code]
    /\ UNCHANGED <<registry, records, now, aggKind, aggAuth, aggCalls,
                   gatewayUp, serviceVars>>

(* ------------------------------ aggregates ----------------------------- *)
\* the calls getDashboard hands to Promise.allSettled: label -> service
DashboardCalls ==
    [profile |-> "user-service", items |-> "item-service",
     lists |-> "list-service", categories |-> "item-service"]

\* variant: the list search is called whether or not the request is authorized
SearchCallsAlways(auth) ==
    [items |-> "item-service", lists |-> "list-service"]

\* the calls of globalSearch: the list search only with an Authorization header
SearchCalls(auth) ==
    IF auth THEN [items |-> "item-service", lists |-> "list-service"]
    ELSE [items |-> "item-service"]

\* the service a label of the aggregate being served is asked from
callTarget(kind, label) ==
    IF kind = "dashboard" THEN DashboardCalls[label]
    ELSE SearchCalls(TRUE)[label]

\* callService up to "await axios(config)" for each call: discover throws
\* (the promise is rejected at once) or the request is sent. It reads no
\* breaker.
callServiceStart(calls, reg) ==
    [l \in DOMAIN calls |->
        IF discoverThrows(reg, calls[l]) THEN "rejected" ELSE "pending"]

\* the services callService sent a request to
callServiceSent(calls, reg) ==
    {calls[l] : l \in {k \in DOMAIN calls : ~discoverThrows(reg, calls[k])}}

\* getDashboard without an Authorization header: 401
GetDashboardUnauthenticated ==
    /\ aggKind = "none"
    /\ last' = [Silent("dashboard", "none") EXCEPT
                    !.status = 401, !.success = "false",
                    !.message = "Token obrigatorio"]
    /\ UNCHANGED <<registry, records, circuitBreakers, now, inflight,
                   aggKind, aggAuth, aggCalls, gatewayUp, serviceVars>>

\* getDashboard up to "await Promise.allSettled"
GetDashboard ==
    /\ aggKind = "none"
    /\ aggKind' = "dashboard"
    /\ aggAuth' = TRUE
    /\ aggCalls' = callServiceStart(DashboardCalls, registry)
    /\ last' = [Silent("dashboard", "none") EXCEPT
                    !.discovered = TRUE, !.auth = TRUE,
                    !.net = callServiceSent(DashboardCalls, registry)]
    /\ UNCHANGED <<registry, records, circuitBreakers, now, inflight,
                   gatewayUp, serviceVars>>

\* globalSearch without the query parameter q: 400
GlobalSearchNoQuery(auth) ==
    /\ aggKind = "none"
    /\ last' = [Silent("search", "none") EXCEPT
                    !.auth = auth,
                    !.status = 400, !.success = "false",
                    !.message = "Parametro q obrigatorio"]
    /\ UNCHANGED <<registry, records, circuitBreakers, now, inflight,
                   aggKind, aggAuth, aggCalls, gatewayUp, serviceVars>>

\* globalSearch up to "await Promise.allSettled"
GlobalSearch(auth) ==
    /\ aggKind = "none"
    /\ aggKind' = "search"
    /\ aggAuth' = auth
    /\ aggCalls' = callServiceStart(SearchCalls(auth), registry)
    /\ last' = [Silent("search", "none") EXCEPT
                    !.discovered = TRUE, !.auth = auth,
                    !.net = callServiceSent(SearchCalls(auth), registry)]
    /\ UNCHANGED <<registry, records, circuitBreakers, now, inflight,
                   gatewayUp, serviceVars>>

\* The awaited axios call of callService settles. The default validateStatus
\* resolves a 2xx answer and rejects every other one; a rejection without a
\* response carries a code. callService has no catch: nothing is recorded.
CallSettles(label, status, code) ==
    /\ label \in DOMAIN aggCalls
    /\ aggCalls[label] = "pending"
    /\ aggCalls' = [aggCalls EXCEPT ![label] =
                      IF code = "none" /\ status >= 200 /\ status < 300
                      THEN "fulfilled" ELSE "rejected"]
    /\ last' = [Silent("callSettled", callTarget(aggKind, label)) EXCEPT
                    !.downstream = IF code = "none" THEN status ELSE 0,
                    !.error = code]
    /\ UNCHANGED <<registry, records, circuitBreakers, now, inflight,
                   aggKind, aggAuth, gatewayUp, serviceVars>>

\* variant: a label is reported available whatever its call settled with
labelEntryAlwaysAvailable(kind, outcome) ==
    IF kind = "dashboard"
    THEN [available |-> TRUE,
          data |-> IF outcome = "fulfilled" THEN "data" ELSE "null",
          error |-> IF outcome = "rejected" THEN "message" ELSE "null"]
    ELSE [available |-> TRUE,
          results |-> IF outcome = "fulfilled" THEN "results" ELSE "[]",
          error |-> IF outcome = "rejected" THEN "message" ELSE "null"]

\* The entry of one label in the aggregate's answer. getDashboard writes
\* {available, data, error} with data null for a rejected call; globalSearch
\* writes {available, results, error} with results [] for a rejected call.
labelEntry(kind, outcome) ==
    IF kind = "dashboard"
    THEN [available |-> outcome = "fulfilled",
          data |-> IF outcome = "fulfilled" THEN "data" ELSE "null",
          error |-> IF outcome = "rejected" THEN "message" ELSE "null"]
    ELSE [available |-> outcome = "fulfilled",
          results |-> IF outcome = "fulfilled" THEN "results" ELSE "[]",
          error |-> IF outcome = "rejected" THEN "message" ELSE "null"]

\* variant: the answer is written as soon as one call has settled
AggregateRespondsEarly ==
    /\ aggKind # "none"
    /\ \E l \in DOMAIN aggCalls : aggCalls[l] # "pending"
    /\ aggKind' = "none"
    /\ aggAuth' = FALSE
    /\ aggCalls' = << >>
    /\ last' = [Silent(aggKind, "none") EXCEPT
                    !.auth = aggAuth,
                    !.status = 200, !.success = "true",
                    !.settled = aggCalls,
                    !.labels = [l \in DOMAIN aggCalls |->
                                   labelEntry(aggKind, aggCalls[l])]]
    /\ UNCHANGED <<registry, records, circuitBreakers, now, inflight,
                   gatewayUp, serviceVars>>

\* Promise.allSettled resolves once every call has settled: the answer
AggregateResponds ==
    /\ aggKind # "none"
    /\ \A l \in DOMAIN aggCalls : aggCalls[l] # "pending"
    /\ aggKind' = "none"
    /\ aggAuth' = FALSE
    /\ aggCalls' = << >>
    /\ last' = [Silent(aggKind, "none") EXCEPT
                    !.auth = aggAuth,
                    !.status = 200, !.success = "true",
                    !.settled = aggCalls,
                    !.labels = [l \in DOMAIN aggCalls |->
                                   labelEntry(aggKind, aggCalls[l])]]
    /\ UNCHANGED <<registry, records, circuitBreakers, now, inflight,
                   gatewayUp, serviceVars>>

(* ------------------------------ health checks -------------------------- *)
\* The timer callbacks of startHealthChecks, "async () => { await
\* serviceRegistry.performHealthChecks(); }", have no try/catch.
\* A cycle whose performHealthChecks resolves:
HealthCheckResolves ==
    /\ gatewayUp
    /\ last' = Silent("healthCheck", "none")
    /\ UNCHANGED <<registry, records, circuitBreakers, now, inflight,
                   aggKind, aggAuth, aggCalls, gatewayUp, serviceVars>>

\* A cycle whose performHealthChecks rejects: the promise of the callback is
\* rejected and nothing handles it (the process registers no
\* unhandledRejection handler). What follows is the runtime's choice: Node.js
\* from version 15 on raises it as an uncaught exception and the process
\* exits, older versions and --unhandled-rejections=warn only print a
\* warning.
HealthCheckRejects(exits) ==
    /\ gatewayUp
    /\ gatewayUp' = ~exits
    /\ last' = [Silent("healthCheck", "none") EXCEPT !.error = "rejected"]
    /\ UNCHANGED <<registry, records, circuitBreakers, now, inflight,
                   aggKind, aggAuth, aggCalls, serviceVars>>

(* ---------------------------- specifications --------------------------- *)
Next ==
    \/ Tick
    \/ \E s \in Services : Register(s)
    \/ \E s \in Services : Unregister(s)
    \/ \E s \in Services : ProxyShortCircuit(s)
    \/ \E s \in Services : ProxyNotFound(s)
    \/ \E s \in Services : ProxyForward(s, publicRoot(s))
    \/ \E s \in Services, st \in Statuses : ProxySuccess(s, st)
    \/ \E s \in Services, st \in Statuses : ProxyErrorResponse(s, st)
    \/ \E s \in Services, c \in ErrorCodes : ProxyNetworkError(s, c)

Spec == Init /\ [][Next]_vars

\* The gateway serving aggregate requests, with proxied traffic to the one
\* service both aggregates call. The aggregates read no clock: it stands
\* still here, so a breaker that has opened stays within its cooldown.
AggProxied == {"item-service"}

AggNext ==
    \/ \E s \in Services : Register(s)
    \/ \E s \in Services : Unregister(s)
    \/ \E s \in AggProxied : ProxyShortCircuit(s)
    \/ \E s \in AggProxied : ProxyNotFound(s)
    \/ \E s \in AggProxied : ProxyForward(s, publicRoot(s))
    \/ \E s \in AggProxied, st \in Statuses : ProxySuccess(s, st)
    \/ \E s \in AggProxied, st \in Statuses : ProxyErrorResponse(s, st)
    \/ \E s \in AggProxied, c \in ErrorCodes : ProxyNetworkError(s, c)
    \/ GetDashboardUnauthenticated
    \/ GetDashboard
    \/ \E auth \in BOOLEAN : GlobalSearchNoQuery(auth)
    \/ \E auth \in BOOLEAN : GlobalSearch(auth)
    \/ \E l \in DOMAIN aggCalls, st \in Statuses : CallSettles(l, st, "none")
    \/ \E l \in DOMAIN aggCalls, c \in ErrorCodes : CallSettles(l, 0, c)
    \/ AggregateResponds

AggSpec == Init /\ [][AggNext]_vars

\* The gateway routing requests for every path of Paths while backends come
\* and go and answer: the route picks the service, proxyRequest finds it or
\* not, rewrites the path, sends the request on and relays the answer.
RouteNext ==
    \/ \E s \in Services : Register(s)
    \/ \E s \in Services : Unregister(s)
    \/ \E p \in Paths : ProxyNotFound(routeOf(p))
    \/ \E p \in Paths : ProxyForward(routeOf(p), p)
    \/ \E s \in Services, st \in Statuses : ProxySuccess(s, st)

RouteSpec == Init /\ [][RouteNext]_vars

\* The gateway with proxied traffic to two of its services, the clock
\* running: what a request for one service does to the record of another.
PairProxied == {"user-service", "item-service"}

PairNext ==
    \/ Tick
    \/ \E s \in PairProxied : Register(s)
    \/ \E s \in PairProxied : Unregister(s)
    \/ \E s \in PairProxied : ProxyShortCircuit(s)
    \/ \E s \in PairProxied : ProxyNotFound(s)
    \/ \E s \in PairProxied : ProxyForward(s, publicRoot(s))
    \/ \E s \in PairProxied, st \in Statuses : ProxySuccess(s, st)
    \/ \E s \in PairProxied, st \in Statuses : ProxyErrorResponse(s, st)
    \/ \E s \in PairProxied, c \in ErrorCodes : ProxyNetworkError(s, c)

PairSpec == Init /\ [][PairNext]_vars

\* The gateway process with its health-check timers, serving proxied
\* requests for one service for as long as the process runs; the backends
\* register and unregister whether it runs or not.
HealthProxied == {"item-service"}

HealthNext ==
    \/ \E s \in Services : Register(s)
    \/ \E s \in Services : Unregister(s)
    \/ gatewayUp /\ Tick
    \/ gatewayUp /\ \E s \in HealthProxied : ProxyShortCircuit(s)
    \/ gatewayUp /\ \E s \in HealthProxied : ProxyNotFound(s)
    \/ gatewayUp /\ \E s \in HealthProxied : ProxyForward(s, publicRoot(s))
    \/ gatewayUp /\ \E s \in HealthProxied, st \in Statuses :
                       ProxySuccess(s, st)
    \/ gatewayUp /\ \E s \in HealthProxied, st \in Statuses :
                       ProxyErrorResponse(s, st)
    \/ gatewayUp /\ \E s \in HealthProxied, c \in ErrorCodes :
                       ProxyNetworkError(s, c)
    \/ HealthCheckResolves
    \/ \E exits \in BOOLEAN : HealthCheckRejects(exits)

HealthSpec == Init /\ [][HealthNext]_vars

\* The aggregate endpoints alone, under the scheduling the code relies on:
\* callService gives every call a timeout of 5000 ms, so a call that is
\* still pending is eventually rejected, and the continuation of
\* "await Promise.allSettled" runs once all calls have settled. The
\* aggregates neither read nor write what the proxied requests do.
AggFairNext ==
    \/ \E s \in Services : Register(s)
    \/ \E s \in Services : Unregister(s)
    \/ GetDashboardUnauthenticated
    \/ GetDashboard
    \/ \E auth \in BOOLEAN : GlobalSearchNoQuery(auth)
    \/ \E auth \in BOOLEAN : GlobalSearch(auth)
    \/ \E l \in DOMAIN aggCalls, st \in Statuses : CallSettles(l, st, "none")
    \/ \E l \in DOMAIN aggCalls, c \in ErrorCodes : CallSettles(l, 0, c)
    \/ AggregateResponds

AggFairSpec ==
    /\ Init /\ [][AggFairNext]_vars
    /\ WF_vars(\E l \in DOMAIN aggCalls : CallSettles(l, 0, "ECONNABORTED"))
    /\ WF_vars(AggregateResponds)

\* The backends and the registry: every backend starts, reports and is shut
\* down by a signal, and the registry probes the services it knows.
Signals == {"SIGTERM", "SIGINT"}

BackendNext ==
    \/ \E s \in Services, p \in EnvPorts : StartService(s, p)
    \/ \E s \in Services : HealthReport(s)
    \/ \E s \in Services : ProbeFails(s)
    \/ \E s \in Services, g \in Signals : ShutdownService(s, g)

BackendSpec == Init /\ [][BackendNext]_vars

\* The register handler of user-service, with requests handled at once
UserNext ==
    \/ \E e \in Emails, u \in Usernames :
          RegisterReceive(freeHandler(registrations), e, u)
    \/ \E h \in DOMAIN registrations : RegisterFindEmail(h)
    \/ \E h \in DOMAIN registrations : RegisterFindUsername(h)
    \/ \E h \in DOMAIN registrations : RegisterCreate(h)

UserSpec == Init /\ [][UserNext]_vars

\* The register handler of user-service, with one request handled at a time
UserSeqNext ==
    \/ /\ registrations = << >>
       /\ \E e \in Emails, u \in Usernames : RegisterReceive(1, e, u)
    \/ RegisterFindEmail(1)
    \/ RegisterFindUsername(1)
    \/ RegisterCreate(1)

UserSeqSpec == Init /\ [][UserSeqNext]_vars

\* Several requests to one registered service awaited at once: what the
\* completion of one does to the breaker the others have moved.
BurstProxied == {"item-service"}

BurstNext ==
    \/ Tick
    \/ \E s \in BurstProxied : Register(s)
    \/ \E s \in BurstProxied : ProxyShortCircuit(s)
    \/ \E s \in BurstProxied : ProxyForwardUpTo(MaxBurst, s, publicRoot(s))
    \/ \E s \in BurstProxied, st \in Statuses : ProxySuccess(s, st)
    \/ \E s \in BurstProxied, st \in Statuses : ProxyErrorResponse(s, st)
    \/ \E s \in BurstProxied, c \in ErrorCodes : ProxyNetworkError(s, c)

BurstSpec == Init /\ [][BurstNext]_vars

\* The functions of ListModel that change the items of a list, applied
\* one after the other to the lists that have been created
ListModelNext ==
    \/ \E l \in ListIds : CreateList(l)
    \/ \E l \in ListIds, d \in ItemData, c \in CatalogItems :
          AddItemToList(l, d, c)
    \/ \E l \in ListIds, i \in ItemIds, d \in UpdateData :
          UpdateItemInList(l, i, d)
    \/ \E l \in ListIds, i \in ItemIds : RemoveItemFromList(l, i)

ListModelSpec == Init /\ [][ListModelNext]_vars

\* The add-item handler of list-service with requests handled at once,
\* item-service registering and unregistering. The requests that are being
\* handled at the same time are for different catalog items.
ListNext ==
    \/ Register("item-service")
    \/ Unregister("item-service")
    \/ \E l \in ListIds : CreateList(l)
    \/ \E l \in ListIds, i \in ItemIds, d \in ItemData :
          /\ \A h \in DOMAIN additions : additions[h].itemId # i
          /\ AddItemReceive(freeHandler(additions), l, i, d)
    \/ \E h \in DOMAIN additions, a \in {"200", "404", "error"} :
          AddItemSettles(h, a)

ListSpec == Init /\ [][ListNext]_vars

(* ------------------------------ properties ----------------------------- *)
\* the step just observed is proxyRequest called for s, up to its first
\* return or await
IsProxyStart(obs, s) == obs.op = "proxy" /\ obs.target = s

\* ... and it was answered by the breaker check
IsShortCircuit(obs, s) ==
    /\ IsProxyStart(obs, s)
    /\ obs.status = 503
    /\ obs.message = "temporariamente indisponivel"

\* ... and it sent the request to s
IsForward(obs, s) == IsProxyStart(obs, s) /\ s \in obs.net

\* the step just observed is the end of a forwarded request to s that failed
IsFailure(obs, s) ==
    /\ obs.op = "response"
    /\ obs.target = s
    /\ (obs.error # "none" \/ obs.status >= 500)

\* ... that was answered with a status below 500
IsSuccess(obs, s) ==
    /\ obs.op = "response"
    /\ obs.target = s
    /\ obs.error = "none"
    /\ obs.status < 500

\* the breaker of s is Closed and counts n failures (no record: Closed, 0)
ClosedWith(cb, s, n) ==
    IF s \in DOMAIN cb
    THEN ~cb[s].isOpen /\ ~cb[s].isHalfOpen /\ cb[s].failures = n
    ELSE n = 0

\* the breaker of s is Open and no more than the cooldown has passed
OpenInCooldown(cb, s, t) ==
    /\ s \in DOMAIN cb
    /\ cb[s].isOpen
    /\ (t - cb[s].lastFailure) <= CoolDown

\* C1: the failure of a forwarded request that brings the count of
\* consecutive failures of its service to 3 leaves the breaker Open, and
\* those that bring it to 1 or 2 leave it Closed; a request that finds the
\* breaker just opened (3 failures, within its cooldown) is answered 503 and
\* nothing is sent, while one that finds 1 or 2 failures counted is not
\* short-circuited and, the service being registered, is forwarded.
C1_OpensAfterThreeFailures ==
    \A s \in Services :
        /\ (IsFailure(last, s) /\ s \in DOMAIN circuitBreakers
                               /\ circuitBreakers[s].failures = Threshold)
            => circuitBreakers[s].isOpen
        /\ IsFailure(last, s)
            => /\ s \in DOMAIN circuitBreakers
               /\ circuitBreakers[s].failures >= 1
        /\ (IsFailure(last, s) /\ s \in DOMAIN circuitBreakers
                               /\ circuitBreakers[s].failures < Threshold)
            => /\ ~circuitBreakers[s].isOpen
               /\ ~circuitBreakers[s].isHalfOpen
        /\ (IsProxyStart(last, s) /\ OpenInCooldown(circuitBreakers, s, now)
                                  /\ circuitBreakers[s].failures = Threshold)
            => /\ IsShortCircuit(last, s)
               /\ last.net = {}
        /\ (IsProxyStart(last, s) /\ \E n \in 1 .. Threshold - 1 :
                                       ClosedWith(circuitBreakers, s, n))
            => /\ ~IsShortCircuit(last, s)
               /\ (s \in registry => IsForward(last, s))

\* a request to a registered service is short-circuited by a breaker that
\* counts exactly three failures
C1_Witness ==
    \E s \in Services :
        /\ IsShortCircuit(last, s)
        /\ s \in registry
        /\ circuitBreakers[s].failures = Threshold

\* C2: a proxyRequest that finds the breaker of its service Open within the
\* cooldown answers 503 naming the service, and has neither called
\* Registry.discover nor sent a request, registered or not.
C2_OpenAnswersWithoutLookup ==
    \A s \in Services :
        (IsProxyStart(last, s) /\ OpenInCooldown(circuitBreakers, s, now))
        => /\ last.status = 503
           /\ last.service = s
           /\ ~last.discovered
           /\ last.net = {}

\* a short-circuited request to a service that is not in the registry
C2_Witness ==
    \E s \in Services :
        /\ IsShortCircuit(last, s)
        /\ OpenInCooldown(circuitBreakers, s, now)
        /\ s \notin registry

\* C3 (as amended): a proxyRequest that finds the breaker of its service
\* opened and more than 30 s passed since lastFailure is not short-circuited:
\* the breaker is no longer Open and, the service being registered, the
\* request is forwarded.
C3_TrialAfterCooldown ==
    \A s \in Services :
        (/\ IsProxyStart(last, s)
         /\ s \in DOMAIN circuitBreakers
         /\ circuitBreakers[s].failures >= Threshold
         /\ (now - circuitBreakers[s].lastFailure) > CoolDown)
        => /\ ~IsShortCircuit(last, s)
           /\ ~circuitBreakers[s].isOpen
           /\ (s \in registry => IsForward(last, s))

\* a trial: a request forwarded by a breaker that has just become HalfOpen
C3_Witness ==
    \E s \in Services :
        /\ IsForward(last, s)
        /\ s \in DOMAIN circuitBreakers
        /\ circuitBreakers[s].isHalfOpen
        /\ (now - circuitBreakers[s].lastFailure) > CoolDown

\* C3 as stated: with 30 s or more passed (the boundary included) the
\* request is not short-circuited.
C3_AsStated ==
    \A s \in Services :
        (/\ IsProxyStart(last, s)
         /\ s \in DOMAIN circuitBreakers
         /\ circuitBreakers[s].failures >= Threshold
         /\ (now - circuitBreakers[s].lastFailure) >= CoolDown)
        => /\ ~IsShortCircuit(last, s)
           /\ (s \in registry => IsForward(last, s))

\* C4: a HalfOpen breaker counts at least 3 failures, and the failure of a
\* forwarded request that finds the breaker at or over the threshold (a
\* trial let through by a HalfOpen breaker) leaves it Open, not HalfOpen,
\* with lastFailure the time of that failure; a request that finds the
\* breaker so re-opened within the 30 s that follow is short-circuited.
C4_FailedTrialReopens ==
    \A s \in Services :
        /\ (s \in DOMAIN circuitBreakers /\ circuitBreakers[s].isHalfOpen)
            => circuitBreakers[s].failures >= Threshold
        /\ (IsFailure(last, s) /\ s \in DOMAIN circuitBreakers
                               /\ circuitBreakers[s].failures > Threshold)
            => /\ circuitBreakers[s].isOpen
               /\ ~circuitBreakers[s].isHalfOpen
               /\ circuitBreakers[s].lastFailure = now
        /\ (IsProxyStart(last, s) /\ OpenInCooldown(circuitBreakers, s, now)
                                  /\ circuitBreakers[s].failures > Threshold)
            => /\ IsShortCircuit(last, s)
               /\ last.net = {}

\* a request short-circuited by a breaker that a failed trial re-opened
C4_Witness ==
    \E s \in Services :
        /\ IsShortCircuit(last, s)
        /\ circuitBreakers[s].failures > Threshold
        /\ circuitBreakers[s].lastFailure > 0

\* C5: after a forwarded request is answered with a status below 500 the
\* breaker of its service is Closed and counts no failure.
C5_SuccessResets ==
    \A s \in Services :
        IsSuccess(last, s) => ClosedWith(circuitBreakers, s, 0)

\* a 4xx answer has reset a breaker that had a record
C5_Witness ==
    \E s \in Services :
        /\ IsSuccess(last, s)
        /\ last.status >= 400
        /\ s \in DOMAIN circuitBreakers

\* C6: no step sends a request to a service whose breaker is Open within
\* its cooldown, be it a proxied request or the calls of an aggregate.
C6_NothingSentWhileOpen ==
    \A s \in last.net : ~OpenInCooldown(circuitBreakers, s, now)

\* C7: once a call of an aggregate has failed (a rejection without a
\* response, or an answer of 500 or more), a failure of its service is
\* recorded in the breaker table, stamped with the time of the failure.
C7_AggregateFailureRecorded ==
    \A s \in Services :
        (/\ last.op = "callSettled"
         /\ last.target = s
         /\ (last.error # "none" \/ last.downstream >= 500))
        => /\ s \in DOMAIN circuitBreakers
           /\ circuitBreakers[s].failures >= 1
           /\ circuitBreakers[s].lastFailure = now

\* C8: a forwarded request that ends without a response (refused, timed
\* out) is answered 503 with the name of the service and the failure kind,
\* and one failure is recorded for the service.
C8_NetworkFailureAnswers503 ==
    \A s \in Services :
        (last.op = "response" /\ last.target = s /\ last.error # "none")
        => /\ last.status = 503
           /\ last.service = s
           /\ last.error \in ErrorCodes
           /\ s \in DOMAIN circuitBreakers
           /\ circuitBreakers[s].failures >= 1
           /\ circuitBreakers[s].lastFailure = now

\* C9: when the downstream answers a forwarded request with a status of 500
\* or more, that status and the downstream's body are what the gateway
\* answers, the failure count of the service is one more than it was, and
\* its lastFailure is the current time.
C9_ErrorResponseRelayedAndRecorded ==
    \A s \in Services :
        (last.op = "response" /\ last.target = s /\ last.downstream >= 500)
        => /\ last.status = last.downstream
           /\ last.relayed
           /\ s \in DOMAIN circuitBreakers
           /\ circuitBreakers[s].failures = last.counted + 1
           /\ circuitBreakers[s].lastFailure = now

\* a relayed 5xx answer has been counted on a breaker that already counted
C9_Witness ==
    \E s \in Services :
        /\ last.op = "response"
        /\ last.target = s
        /\ last.relayed
        /\ last.downstream >= 500
        /\ last.counted >= 1
        /\ circuitBreakers[s].lastFailure = now

\* C10: a proxyRequest for a service that has no registry entry, and whose
\* breaker does not short-circuit it, answers 503 with service equal to
\* that name and the names now in the registry, and sends nothing.
C10_UnknownServiceAnswers503 ==
    \A s \in Services :
        (/\ IsProxyStart(last, s)
         /\ s \notin registry
         /\ ~OpenInCooldown(circuitBreakers, s, now))
        => /\ last.status = 503
           /\ last.message = "nao encontrado"
           /\ last.service = s
           /\ last.availableServices = registry
           /\ last.net = {}

\* an unknown service was asked for while other services were registered
C10_Witness ==
    \E s \in Services :
        /\ IsProxyStart(last, s)
        /\ s \notin registry
        /\ last.message = "nao encontrado"
        /\ last.availableServices # {}

\* C11, as stated: a record that is Open counts at least 3 failures and less
\* than 30 s have passed since its last failure.
C11_AsStated ==
    \A s \in DOMAIN circuitBreakers :
        circuitBreakers[s].isOpen =>
            /\ circuitBreakers[s].failures >= Threshold
            /\ (now - circuitBreakers[s].lastFailure) < CoolDown

\* C11: a record that is Open counts at least 3 failures and its last failure
\* is not in the future; a request is answered by the breaker check only
\* while the record is Open and no more than 30 s have passed since the last
\* failure. The record itself stays Open past the cooldown until the next
\* request for the service looks at it.
C11_OpenCountsThreshold ==
    \A s \in Services :
        /\ (s \in DOMAIN circuitBreakers /\ circuitBreakers[s].isOpen) =>
              /\ circuitBreakers[s].failures >= Threshold
              /\ circuitBreakers[s].lastFailure <= now
        /\ IsShortCircuit(last, s) => OpenInCooldown(circuitBreakers, s, now)

\* a record still Open although more than the cooldown has passed
C11_Witness ==
    \E s \in DOMAIN circuitBreakers :
        /\ circuitBreakers[s].isOpen
        /\ circuitBreakers[s].failures >= Threshold
        /\ (now - circuitBreakers[s].lastFailure) > CoolDown

\* the step just observed is the answer of an aggregate whose calls settled
IsAggregateAnswer(obs) ==
    obs.op \in {"dashboard", "search"} /\ obs.settled # NoLabels

\* the payload of a label's entry: data (dashboard) or results (search)
payloadOf(entry) ==
    IF "data" \in DOMAIN entry THEN entry.data ELSE entry.results

\* C12, as stated: whatever the calls of an aggregate settled with, the
\* answer is successful and has one entry per requested label; the entry of a
\* rejected call has available = false, an error and null data, the entry of
\* a fulfilled call has available = true and a null error.
C12_AsStated ==
    IsAggregateAnswer(last) =>
        /\ last.status = 200 /\ last.success = "true"
        /\ DOMAIN last.labels = DOMAIN last.settled
        /\ \A l \in DOMAIN last.labels :
              /\ last.settled[l] = "rejected" =>
                    /\ ~last.labels[l].available
                    /\ last.labels[l].error # "null"
                    /\ payloadOf(last.labels[l]) = "null"
              /\ last.settled[l] = "fulfilled" =>
                    /\ last.labels[l].available
                    /\ last.labels[l].error = "null"

\* C12: whatever the calls of an aggregate settled with, the answer is
\* successful (200, success true) and has one entry per requested label (the
\* four of the dashboard; items, and lists when authorized, of the search);
\* the entry of a rejected call has available = false and an error, with data
\* null in the dashboard and results [] in the search; the entry of a
\* fulfilled call has available = true and a null error.
C12_PartialAggregate ==
    IsAggregateAnswer(last) =>
        /\ last.status = 200 /\ last.success = "true"
        /\ DOMAIN last.labels = DOMAIN last.settled
        /\ DOMAIN last.labels =
              IF last.op = "dashboard" THEN DOMAIN DashboardCalls
              ELSE DOMAIN SearchCalls(last.auth)
        /\ \A l \in DOMAIN last.labels :
              /\ last.settled[l] \in {"rejected", "fulfilled"}
              /\ last.settled[l] = "rejected" =>
                    /\ ~last.labels[l].available
                    /\ last.labels[l].error # "null"
                    /\ IF last.op = "dashboard"
                       THEN last.labels[l].data = "null"
                       ELSE last.labels[l].results = "[]"
              /\ last.settled[l] = "fulfilled" =>
                    /\ last.labels[l].available
                    /\ last.labels[l].error = "null"

\* a search answered with one call rejected and the other fulfilled
C12_Witness ==
    /\ IsAggregateAnswer(last)
    /\ last.op = "search"
    /\ \E l \in DOMAIN last.settled : last.settled[l] = "rejected"
    /\ \E l \in DOMAIN last.settled : last.settled[l] = "fulfilled"

\* the labels whose calls carry the Authorization header of the request
AuthGated == {"profile", "lists"}

\* C13, as stated: an aggregate request without an Authorization header is
\* answered with a successful aggregate that has the labels that need no
\* credential and none of profile and lists, and no call is sent for those.
C13_AsStated ==
    (last.op \in {"dashboard", "search"} /\ ~last.auth) =>
        /\ last.net \subseteq {"item-service"}
        /\ last.status \notin {0, 400} =>
              /\ last.status = 200 /\ last.success = "true"
              /\ "items" \in DOMAIN last.labels
              /\ DOMAIN last.labels \cap AuthGated = {}

\* C13: a global search without an Authorization header sends the item
\* search only and is answered with a successful aggregate whose one label is
\* items; a dashboard request without an Authorization header is answered
\* 401 with success false, and no call is sent for it.
C13_Unauthenticated ==
    /\ (last.op = "search" /\ ~last.auth /\ last.status # 400) =>
          /\ last.net \subseteq {"item-service"}
          /\ last.status = 0 => DOMAIN aggCalls = {"items"}
          /\ last.status # 0 =>
                /\ last.status = 200 /\ last.success = "true"
                /\ DOMAIN last.labels = {"items"}
    /\ (last.op = "dashboard" /\ ~last.auth) =>
          /\ last.status = 401 /\ last.success = "false"
          /\ ~last.discovered /\ last.net = NoNames
          /\ last.labels = NoLabels

\* a search without an Authorization header answered with its items
C13_Witness ==
    /\ IsAggregateAnswer(last)
    /\ last.op = "search" /\ ~last.auth
    /\ last.labels["items"].available

\* every call of the aggregate being served has settled
AllSettled ==
    aggKind # "none" /\ \A l \in DOMAIN aggCalls : aggCalls[l] # "pending"

\* C14: an aggregate is answered only with every one of its calls settled,
\* whatever the order they settled in; once all of them have settled the
\* answer is eventually written, and since a pending call is eventually
\* timed out, every aggregate being served is eventually answered.
C14_AnsweredWhenAllSettled ==
    /\ [](IsAggregateAnswer(last) =>
            \A l \in DOMAIN last.settled : last.settled[l] # "pending")
    /\ AllSettled ~> IsAggregateAnswer(last)
    /\ (aggKind # "none") ~> IsAggregateAnswer(last)

\* a dashboard answered after one call was rejected without a response (the
\* timeout among them) and another was fulfilled
C14_Witness ==
    /\ IsAggregateAnswer(last)
    /\ last.op = "dashboard"
    /\ last.settled["profile"] = "rejected"
    /\ last.settled["items"] = "fulfilled"
    /\ "user-service" \in registry

\* the step just observed sent a proxied request on
IsSent(obs) == obs.op = "proxy" /\ obs.originalUrl # NoUrl

\* the path of the url a proxied request was sent to
sentPath(obs) == Tail(obs.url)

\* the public prefixes, with the service and the downstream root each stands
\* for
RoutingTable ==
    { [prefix |-> <<"api", "auth">>, service |-> "user-service",
       root |-> <<"auth">>],
      [prefix |-> <<"api", "users">>, service |-> "user-service",
       root |-> <<"users">>],
      [prefix |-> <<"api", "items">>, service |-> "item-service",
       root |-> <<"items">>],
      [prefix |-> <<"api", "categories">>, service |-> "item-service",
       root |-> <<"categories">>],
      [prefix |-> <<"api", "search", "items">>, service |-> "item-service",
       root |-> <<"search">>],
      [prefix |-> <<"api", "lists">>, service |-> "list-service",
       root |-> <<"lists">>] }

\* the entry of the table a path falls under
entryOf(path) == CHOOSE e \in RoutingTable : startsWith(path, e.prefix)

\* C15, as stated: the path a request under a public prefix is sent on with
\* is neither empty nor "/", a bare public prefix is sent on as the
\* downstream root, and rewriting the rewritten path leaves it unchanged.
C15_AsStated ==
    IsSent(last) =>
        /\ sentPath(last) # << >>
        /\ last.originalUrl = entryOf(last.originalUrl).prefix =>
              sentPath(last) = entryOf(last.originalUrl).root
        /\ targetPath(last.target, sentPath(last)) = sentPath(last)

\* C15: the path a request under a public prefix is sent on with is neither
\* empty nor "/", a bare public prefix is sent on as the downstream root, and
\* rewriting the rewritten path leaves it unchanged exactly when it does not
\* contain the public collection root of its service (/api/users, /api/items,
\* /api/lists) once more.
C15_RewriteTotal ==
    IsSent(last) =>
        /\ sentPath(last) # << >>
        /\ last.originalUrl = entryOf(last.originalUrl).prefix =>
              sentPath(last) = entryOf(last.originalUrl).root
        /\ (targetPath(last.target, sentPath(last)) = sentPath(last))
              <=> (indexOf(sentPath(last), publicRoot(last.target)) = 0)

\* a request under /api/auth with further segments, sent on rewritten
C15_Witness ==
    /\ IsSent(last)
    /\ startsWith(last.originalUrl, <<"api", "auth">>)
    /\ Len(last.originalUrl) > 2
    /\ sentPath(last) = <<"auth">> \o SubSeq(last.originalUrl, 3,
                                             Len(last.originalUrl))

\* C16: a request under a public prefix that is sent on goes to the service
\* the routing table names for the prefix and to no other, at the url that
\* service registered followed by the downstream root of the prefix and the
\* rest of the path; and a downstream answer with a status below 500 is
\* relayed with that status and the downstream's body.
C16_RoutedAndRelayed ==
    /\ IsSent(last) =>
          LET e == entryOf(last.originalUrl)
              rest == SubSeq(last.originalUrl, Len(e.prefix) + 1,
                             Len(last.originalUrl))
          IN  /\ last.target = e.service
              /\ last.net = {e.service}
              /\ last.url = <<registeredUrl(e.service)>> \o e.root \o rest
    /\ \A s \in Services :
          (IsSuccess(last, s) /\ last.downstream # 0) =>
              /\ last.status = last.downstream
              /\ last.relayed
              /\ last.success = "none" /\ last.message = "none"

\* GET /api/items/42 sent on to the item service as /items/42
C16_Witness ==
    /\ IsSent(last)
    /\ last.originalUrl = <<"api", "items", "42">>
    /\ last.target = "item-service"
    /\ last.url = <<"http://localhost:3003", "items", "42">>

\* the step just observed is a step of proxyRequest
IsProxyStep(obs) == obs.op \in {"proxy", "response"}

\* the record of s counts failures or is Open or HalfOpen
IsDirty(cb, s) ==
    /\ s \in DOMAIN cb
    /\ (cb[s].failures > 0 \/ cb[s].isOpen \/ cb[s].isHalfOpen)

\* C17, as stated: every step of proxyRequest that answers the request has
\* changed the circuit breaker table, and no step of proxyRequest changes the
\* registry.
C17_AsStated ==
    [][IsProxyStep(last') =>
          /\ registry' = registry
          /\ last'.status # 0 => circuitBreakers' # circuitBreakers]_vars

\* C17: no step of proxyRequest changes the registry. The circuit breaker
\* table is changed by a step that records a failure, by the success of a
\* request whose record counts failures or is Open or HalfOpen, and by the
\* breaker check that finds an Open record past its cooldown; it is left as
\* it was by a request the open breaker answers, by a request that finds a
\* Closed or missing record at its start, and by the success of a request
\* whose service has no record or a clean one.
C17_ProxyFrame ==
    [][IsProxyStep(last') =>
          /\ registry' = registry
          /\ \A s \in Services :
                /\ IsFailure(last', s) => circuitBreakers' # circuitBreakers
                /\ IsShortCircuit(last', s) =>
                      circuitBreakers' = circuitBreakers
                /\ (IsProxyStart(last', s) /\ ~IsShortCircuit(last', s)) =>
                      ((circuitBreakers' # circuitBreakers)
                          <=> (s \in DOMAIN circuitBreakers
                               /\ circuitBreakers[s].isOpen))
                /\ IsSuccess(last', s) =>
                      ((circuitBreakers' # circuitBreakers)
                          <=> IsDirty(circuitBreakers, s))]_vars

\* a request answered successfully for a registered service that has no
\* record: the table is as it was
C17_Witness ==
    \E s \in Services :
        /\ IsSuccess(last, s)
        /\ s \in registry
        /\ s \notin DOMAIN circuitBreakers

\* C18: every answer proxyRequest writes itself for a request routed to s
\* (not the downstream's body) has success false, a message, and service
\* equal to s.
C18_ErrorNamesService ==
    \A s \in Services :
        (IsProxyStep(last) /\ last.target = s
            /\ last.status # 0 /\ ~last.relayed) =>
                /\ last.success = "false"
                /\ last.message # "none"
                /\ last.service = s

C20_FailedCycleSurvived ==
    (last.op = "healthCheck" /\ last.error # "none") => gatewayUp


\* C21: after the graceful shutdown of a backend (its SIGTERM or SIGINT
\* handler has run and the process has exited) the registry holds no record
\* of that backend.
C21_ShutdownUnregisters ==
    last.op \in Signals => last.target \notin registry


\* the records of every name other than name are the same in recs and after
SameElsewhere(recs, after, name) ==
    {r \in recs : r.name # name} = {r \in after : r.name # name}

C23_EmailsUnique ==
    \A i, j \in 1..Len(users) :
        toLowerCase(users[i].email) = toLowerCase(users[j].email) => i = j

\* C30: no two stored users have the same username.
C30_UsernamesUnique ==
    \A i, j \in 1..Len(users) :
        users[i].username = users[j].username => i = j


\* C24: a breaker that is Open and within its cooldown is still Open after
\* every step, the late successful completion of a request forwarded before
\* it opened included.
C24_OpenUntilCooldown ==
    [][\A s \in Services :
          OpenInCooldown(circuitBreakers, s, now) =>
              /\ s \in DOMAIN circuitBreakers'
              /\ circuitBreakers'[s].isOpen]_vars


\* C25: in every reachable state no breaker record has isOpen and
\* isHalfOpen both true, a record that is Open or HalfOpen counts at least
\* 3 failures, and a record that is Closed counts at most 2.
C25_FlagsAndCount ==
    \A s \in DOMAIN circuitBreakers :
        LET breaker == circuitBreakers[s]
        IN  /\ ~(breaker.isOpen /\ breaker.isHalfOpen)
            /\ (breaker.isOpen \/ breaker.isHalfOpen) => breaker.failures >= 3
            /\ (~breaker.isOpen /\ ~breaker.isHalfOpen)
                   => breaker.failures <= 2

\* a HalfOpen breaker has just been opened again by the failure of its trial
C25_Witness ==
    \E s \in DOMAIN circuitBreakers :
        /\ IsFailure(last, s)
        /\ circuitBreakers[s].isOpen
        /\ ~circuitBreakers[s].isHalfOpen
        /\ circuitBreakers[s].failures > Threshold


\* failures and lastFailure of every record of cb, and the names that have one
Counts(cb) ==
    [n \in DOMAIN cb |->
        [failures |-> cb[n].failures, lastFailure |-> cb[n].lastFailure]]

\* the step just observed is a proxyRequest answered 503 because its
\* service has no registry entry
IsNotFound(obs, s) ==
    /\ IsProxyStart(obs, s)
    /\ obs.status = 503
    /\ obs.discovered
    /\ obs.net = NoNames

\* C26: a proxied request that is answered without a network call, because
\* the breaker of its service is Open or because the service is not in the
\* registry, leaves failures and lastFailure of every breaker record as they
\* were, and creates no record.
C26_RejectedLeavesCounts ==
    [][(\E s \in Services :
            IsShortCircuit(last', s) \/ IsNotFound(last', s))
          => Counts(circuitBreakers') = Counts(circuitBreakers)]_vars

\* a request has been short-circuited by a breaker that another failure
\* had opened at a later time than 0
C26_WitnessShortCircuit ==
    \E s \in DOMAIN circuitBreakers :
        /\ IsShortCircuit(last, s)
        /\ circuitBreakers[s].isOpen
        /\ circuitBreakers[s].lastFailure > 0


\* the breaker of s is HalfOpen
IsHalfOpen(cb, s) == s \in DOMAIN cb /\ cb[s].isHalfOpen

\* C27: while the breaker of a registered service is HalfOpen, every
\* proxyRequest for that service is forwarded and none is short-circuited,
\* whether or not other forwarded requests for it are still awaited.
C27_HalfOpenForwardsAll ==
    [][\A s \in Services :
          (/\ IsHalfOpen(circuitBreakers, s)
           /\ s \in registry
           /\ IsProxyStart(last', s))
          => /\ IsForward(last', s)
             /\ inflight'[s] = inflight[s] + 1]_vars

\* a second request has been forwarded to a service whose breaker is
\* HalfOpen while an earlier forwarded request is still awaited
C27_WitnessTwoTrials ==
    \E s \in Services :
        /\ IsHalfOpen(circuitBreakers, s)
        /\ IsForward(last, s)
        /\ inflight[s] = 2
        /\ circuitBreakers[s].failures = Threshold


\* no two items have the same itemId
UniqueItemIds(items) ==
    \A i, j \in 1..Len(items) : items[i].itemId = items[j].itemId => i = j

\* the step just taken applied op of ListModel to list l for itemId
IsListOp(obs, ops, l) == obs.op \in ops /\ obs.target = l

\* C29: in every list built from the empty list by addItemToList,
\* updateItemInList and removeItemFromList no two items have the same itemId;
\* addItemToList for a catalog item whose id is in the list throws and
\* leaves the list as it was, and so do updateItemInList and
\* removeItemFromList for an itemId that is not in the list.
C29_ItemIdsUnique ==
    /\ [](\A l \in DOMAIN lists : UniqueItemIds(lists[l]))
    /\ [][\A l \in DOMAIN lists :
             /\ (/\ IsListOp(last', {"addItemToList"}, l)
                 /\ findIndex(lists[l], last'.itemId) # 0)
                => last'.error # "none" /\ lists' = lists
             /\ (/\ IsListOp(last', {"updateItemInList",
                                     "removeItemFromList"}, l)
                 /\ findIndex(lists[l], last'.itemId) = 0)
                => last'.error # "none" /\ lists' = lists]_vars

\* addItemToList has refused a catalog item that a list of two items has
C29_WitnessDuplicateRefused ==
    \E l \in DOMAIN lists :
        /\ IsListOp(last, {"addItemToList"}, l)
        /\ last.error = "Item ja existe na lista. Use PUT para atualizar."
        /\ last.itemId \in ItemIds
        /\ Len(lists[l]) = 2
        /\ findIndex(lists[l], last.itemId) # 0


\* C28: an add-item request that is answered 201 has stored its item after
\* the items the stored list had when it was answered: with the requests
\* handled at the same time being for different catalog items, no item
\* that another request has stored in the meantime is lost.
C28_SuccessfulAddKeepsStored ==
    [][\A l \in DOMAIN lists :
          (/\ last'.op = "addItem"
           /\ last'.target = l
           /\ last'.status = 201)
          => /\ Len(lists'[l]) = Len(lists[l]) + 1
             /\ SubSeq(lists'[l], 1, Len(lists[l])) = lists[l]]_vars

====
